---- MODULE Spec2Model ----
(***************************************************************************)
(* Model of the current-room-state projection table of the current state   *)
(* server (currentstateserver/storage/postgres/current_room_state_table.go)*)
(* The table is a set of rows; every prepared statement is an operator on  *)
(* that set, and every method of currentRoomStateStatements is an action.  *)
(***************************************************************************)
EXTENDS Integers, Sequences, FiniteSets, TLC

(***************************************************************************)
(* Bounds and input domains                                                *)
(***************************************************************************)
\* largest number of rows the model lets the table hold
MaxRows == 2

Rooms == {"!r1", "!r2"}
Types == {"m.room.member", "m.room.join_rules"}
StateKeys == {"@a", "*"}
EventIDs == {"$e1", "$e2"}
Senders == {"@a", "@b"}
ContentVals == {"join", "leave", "invite"}

\* the nil *string returned by Event.StateKey() for an event without a state key
NoStateKey == "<nil>"

\* (event type, state key) of the state events the resolver hands over
StateTuples ==
    {<<"m.room.member", "@a">>, <<"m.room.member", "*">>, <<"m.room.join_rules", "*">>}

\* (event ID, sender) of the events the resolver hands over: an event ID names one
\* event of one sender, while its room, type and state key are left free
Identities == {<<"$e1", "@a">>, <<"$e2", "@b">>}

\* gomatrixserverlib.HeaderedEvent values handed to UpsertRoomState: state events,
\* and timeline events, which carry no state key
StateEvents ==
    {[room_id |-> r, event_id |-> i[1], type |-> k[1], sender |-> i[2], state_key |-> k[2]] :
        r \in Rooms, i \in Identities, k \in StateTuples}

TimelineEvents ==
    {[room_id |-> "!r1", event_id |-> e, type |-> "m.room.message", sender |-> "@a",
      state_key |-> NoStateKey] : e \in EventIDs}

Events == StateEvents \cup TimelineEvents

\* the content value the caller extracts for an event: the membership of a member
\* event, the join rule of a join_rules event
ContentValsOf(type) ==
    IF type = "m.room.member" THEN {"join", "leave"} ELSE {"invite"}

\* gomatrixserverlib.StateKeyTuple values of a bulk request
KeyTuple(type, key) == [EventType |-> type, StateKey |-> key]

\* the arguments the recorded queries are called with
MembershipRequests == {<<"@a", "join">>, <<"@a", "leave">>, <<"*", "invite">>}

EventIDLists == {<<>>, <<"$e1">>, <<"$e2", "$e1", "$e2">>}

StateEventRequests ==
    {<<"!r1", "m.room.member", "@a">>, <<"!r2", "m.room.member", "*">>,
     <<"!r1", "m.room.join_rules", "@a">>}

RoomIDLists == {<<"!r1">>, <<"!r2", "!r1">>}

TupleLists ==
    {<<KeyTuple("m.room.member", "*")>>,
     <<KeyTuple("m.room.member", "@a"), KeyTuple("m.room.join_rules", "*")>>}

BulkRequests ==
    (RoomIDLists \X TupleLists \X BOOLEAN)
        \cup {<<<<>>, <<KeyTuple("m.room.member", "*")>>, TRUE>>,
              <<<<"!r1">>, <<>>, FALSE>>,
              <<<<"!r1", "!r2", "!r1">>,
                <<KeyTuple("m.room.member", "*"), KeyTuple("m.room.member", "@a"),
                  KeyTuple("m.room.member", "*")>>, FALSE>>}

\* the workers that call UpsertRoomState concurrently, and the tuple they all write
Callers == {"w1", "w2"}

ConcKey == <<"!r1", "m.room.member", "@a">>

(***************************************************************************)
(* State                                                                   *)
(***************************************************************************)
VARIABLES
    table,    \* rows of currentstate_current_room_state
    last,     \* the call that completed last: its arguments and what it returned
    upserted, \* history: per tuple, the arguments of the latest successful UpsertRoomState
              \* whose event no later DeleteRoomStateByEventID has named
    calls,    \* concurrent UpsertRoomState callers: where each one is, with its arguments
    prior     \* history: the rows held when the concurrent callers started

vars == <<table, last, upserted, calls, prior>>

(***************************************************************************)
(* Schema: the row shape and the keys of the two unique indexes            *)
(***************************************************************************)
\* json.Marshal(event): the serialised headered event
Marshal(event) ==
    <<"headered", event.room_id, event.event_id, event.type, event.sender, event.state_key>>

\* json.Unmarshal(bytes, &ev)
Unmarshal(bytes) ==
    [room_id |-> bytes[2], event_id |-> bytes[3], type |-> bytes[4],
     sender |-> bytes[5], state_key |-> bytes[6]]

\* CONSTRAINT currentstate_current_room_state_unique UNIQUE (room_id, type, state_key)
TupleOf(row) == <<row.room_id, row.type, row.state_key>>

\* UNIQUE INDEX currentstate_event_id_idx (event_id, room_id, type, sender)
EventIdxOf(row) == <<row.event_id, row.room_id, row.type, row.sender>>

RowsAt(t, key) == {r \in t : TupleOf(r) = key}

(***************************************************************************)
(* Prepared statements                                                     *)
(***************************************************************************)
\* Variant: a plain INSERT, with no conflict target to clobber on
upsertRoomStateSQL_PlainInsert(t, room_id, event_id, type, sender, state_key, json, content_value) ==
    [rows |-> t \cup {[room_id |-> room_id, event_id |-> event_id, type |-> type,
                       sender |-> sender, state_key |-> state_key,
                       headered_event_json |-> json, content_value |-> content_value]},
     err |-> "nil"]

\* Variant: DO UPDATE SET leaves content_value out
upsertRoomStateSQL_StaleContent(t, room_id, event_id, type, sender, state_key, json, content_value) ==
    LET key == <<room_id, type, state_key>>
        conflict == RowsAt(t, key)
    IN  [rows |-> (t \ conflict) \cup
                  (IF conflict = {}
                   THEN {[room_id |-> room_id, event_id |-> event_id, type |-> type,
                          sender |-> sender, state_key |-> state_key,
                          headered_event_json |-> json, content_value |-> content_value]}
                   ELSE {[r EXCEPT !.event_id = event_id, !.sender = sender,
                                   !.headered_event_json = json] : r \in conflict}),
         err |-> "nil"]

\* Variant: the conflict target also names event_id, so a different event for the same
\* tuple is inserted beside the row already there
upsertRoomStateSQL_KeyedByEvent(t, room_id, event_id, type, sender, state_key, json, content_value) ==
    LET key == <<room_id, type, state_key>>
        conflict == {r \in RowsAt(t, key) : r.event_id = event_id}
    IN  [rows |-> (t \ conflict) \cup
                  {[room_id |-> room_id, event_id |-> event_id, type |-> type,
                    sender |-> sender, state_key |-> state_key,
                    headered_event_json |-> json, content_value |-> content_value]},
         err |-> "nil"]

\* Variant: DO UPDATE SET leaves sender out
upsertRoomStateSQL_StaleSender(t, room_id, event_id, type, sender, state_key, json, content_value) ==
    LET key == <<room_id, type, state_key>>
        conflict == RowsAt(t, key)
    IN  [rows |-> (t \ conflict) \cup
                  (IF conflict = {}
                   THEN {[room_id |-> room_id, event_id |-> event_id, type |-> type,
                          sender |-> sender, state_key |-> state_key,
                          headered_event_json |-> json, content_value |-> content_value]}
                   ELSE {[r EXCEPT !.event_id = event_id, !.headered_event_json = json,
                                   !.content_value = content_value] : r \in conflict}),
         err |-> "nil"]

\* Variant: the unique index is checked after the rows are written, and a violation
\* leaves them written
upsertRoomStateSQL_PartialOnViolation(t, room_id, event_id, type, sender, state_key, json, content_value) ==
    LET new == [room_id |-> room_id, event_id |-> event_id, type |-> type,
                sender |-> sender, state_key |-> state_key,
                headered_event_json |-> json, content_value |-> content_value]
        conflict == RowsAt(t, TupleOf(new))
        rest == t \ conflict
        written == IF conflict = {} THEN {new}
                   ELSE {[r EXCEPT !.event_id = event_id, !.sender = sender,
                                   !.headered_event_json = json,
                                   !.content_value = content_value] : r \in conflict}
    IN  [rows |-> IF conflict = {} /\ (\E r \in rest : EventIdxOf(r) = EventIdxOf(new))
                  THEN t ELSE rest \cup written,
         err |-> IF \E r \in rest : \E w \in written : EventIdxOf(r) = EventIdxOf(w)
                 THEN "unique_violation" ELSE "nil"]

\* Variant: the table without currentstate_event_id_idx
upsertRoomStateSQL_NoEventIdx(t, room_id, event_id, type, sender, state_key, json, content_value) ==
    LET new == [room_id |-> room_id, event_id |-> event_id, type |-> type,
                sender |-> sender, state_key |-> state_key,
                headered_event_json |-> json, content_value |-> content_value]
    IN  [rows |-> (t \ RowsAt(t, TupleOf(new))) \cup {new}, err |-> "nil"]

\* Variant: the conflict target is (room_id, type), so the rows of the room and type
\* under other state keys are replaced too
upsertRoomStateSQL_ConflictOnRoomType(t, room_id, event_id, type, sender, state_key, json, content_value) ==
    LET new == [room_id |-> room_id, event_id |-> event_id, type |-> type,
                sender |-> sender, state_key |-> state_key,
                headered_event_json |-> json, content_value |-> content_value]
    IN  [rows |-> {r \in t : r.room_id # room_id \/ r.type # type} \cup {new},
         err |-> "nil"]

\* INSERT ... ON CONFLICT ON CONSTRAINT currentstate_current_room_state_unique
\* DO UPDATE SET event_id = $2, sender = $4, headered_event_json = $6, content_value = $7
\* A row that would repeat a key of currentstate_event_id_idx aborts the statement.
upsertRoomStateSQL(t, room_id, event_id, type, sender, state_key, json, content_value) ==
    LET new == [room_id |-> room_id, event_id |-> event_id, type |-> type,
                sender |-> sender, state_key |-> state_key,
                headered_event_json |-> json, content_value |-> content_value]
        conflict == RowsAt(t, TupleOf(new))
        rest == t \ conflict
        updated == {[r EXCEPT !.event_id = event_id, !.sender = sender,
                              !.headered_event_json = json,
                              !.content_value = content_value] : r \in conflict}
        written == IF conflict = {} THEN {new} ELSE updated
    IN  IF \E r \in rest : \E w \in written : EventIdxOf(r) = EventIdxOf(w)
        THEN [rows |-> t, err |-> "unique_violation"]
        ELSE [rows |-> rest \cup written, err |-> "nil"]

\* Variant: DELETE without its WHERE clause
deleteRoomStateByEventIDSQL_NoWhere(t, event_id) == [rows |-> {}, err |-> "nil"]

\* Variant: the WHERE clause negated
deleteRoomStateByEventIDSQL_Inverted(t, event_id) ==
    [rows |-> {r \in t : r.event_id = event_id}, err |-> "nil"]

\* Variant: the statement matches nothing
deleteRoomStateByEventIDSQL_NoMatch(t, event_id) == [rows |-> t, err |-> "nil"]

\* Variant: DELETE ... WHERE event_id = $1 removing one matching row only
deleteRoomStateByEventIDSQL_OneRow(t, event_id) ==
    LET held == {r \in t : r.event_id = event_id}
    IN  [rows |-> IF held = {} THEN t ELSE t \ {CHOOSE r \in held : TRUE}, err |-> "nil"]

\* DELETE FROM currentstate_current_room_state WHERE event_id = $1
deleteRoomStateByEventIDSQL(t, event_id) ==
    [rows |-> {r \in t : r.event_id # event_id}, err |-> "nil"]

\* Variant: the rows of currentstate_membership_idx only, which leaves out 'leave'
selectRoomIDsWithMembershipSQL_PartialIndex(t, userID, contentVal) ==
    {r \in t : /\ r.type = "m.room.member" /\ r.state_key = userID
               /\ r.content_value = contentVal /\ r.content_value # "leave"}

\* SELECT room_id ... WHERE type = 'm.room.member' AND state_key = $1 AND content_value = $2
selectRoomIDsWithMembershipSQL(t, userID, contentVal) ==
    {r \in t : r.type = "m.room.member" /\ r.state_key = userID /\ r.content_value = contentVal}

\* Variant: WHERE event_id = $1 with the first ID of the list
selectEventsWithEventIDsSQL_FirstIDOnly(t, eventIDs) ==
    {r \in t : eventIDs # <<>> /\ r.event_id = eventIDs[1]}

\* Variant: the state key is left out of the WHERE clause
selectStateEventSQL_AnyStateKey(t, room_id, type, state_key) ==
    {r \in t : r.room_id = room_id /\ r.type = type}

\* SELECT headered_event_json ... WHERE room_id = $1 AND type = $2 AND state_key = $3
selectStateEventSQL(t, room_id, type, state_key) ==
    {r \in t : r.room_id = room_id /\ r.type = type /\ r.state_key = state_key}

\* SELECT headered_event_json ... WHERE event_id = ANY($1)
selectEventsWithEventIDsSQL(t, eventIDs) ==
    {r \in t : \E i \in DOMAIN eventIDs : r.event_id = eventIDs[i]}

\* Variant: type and state key matched as the pairs requested
selectBulkStateContentSQL_Paired(t, roomIDs, eventTypes, stateKeys) ==
    {r \in t : /\ \E i \in DOMAIN roomIDs : r.room_id = roomIDs[i]
               /\ \E i \in DOMAIN eventTypes \cap DOMAIN stateKeys :
                     r.type = eventTypes[i] /\ r.state_key = stateKeys[i]}

\* Variant: an empty array stands for "no filter on this column"
selectBulkStateContentSQL_EmptyMatchesAll(t, roomIDs, eventTypes, stateKeys) ==
    {r \in t : /\ roomIDs = <<>> \/ \E i \in DOMAIN roomIDs : r.room_id = roomIDs[i]
               /\ eventTypes = <<>> \/ \E i \in DOMAIN eventTypes : r.type = eventTypes[i]
               /\ stateKeys = <<>> \/ \E i \in DOMAIN stateKeys : r.state_key = stateKeys[i]}

\* SELECT room_id, type, state_key, content_value ...
\* WHERE room_id = ANY($1) AND type = ANY($2) AND state_key = ANY($3)
selectBulkStateContentSQL(t, roomIDs, eventTypes, stateKeys) ==
    {r \in t : /\ \E i \in DOMAIN roomIDs : r.room_id = roomIDs[i]
               /\ \E i \in DOMAIN eventTypes : r.type = eventTypes[i]
               /\ \E i \in DOMAIN stateKeys : r.state_key = stateKeys[i]}

\* SELECT room_id, type, state_key, content_value ...
\* WHERE room_id = ANY($1) AND type = ANY($2)
selectBulkStateContentWildSQL(t, roomIDs, eventTypes) ==
    {r \in t : /\ \E i \in DOMAIN roomIDs : r.room_id = roomIDs[i]
               /\ \E i \in DOMAIN eventTypes : r.type = eventTypes[i]}

\* the orders in which the engine may return the rows a SELECT matches
Orders(rows) ==
    {f \in [1..Cardinality(rows) -> rows] :
        \A i, j \in 1..Cardinality(rows) : i # j => f[i] # f[j]}

(***************************************************************************)
(* Methods of currentRoomStateStatements                                   *)
(***************************************************************************)
Init ==
    /\ table = {}
    /\ last = [op |-> "NewPostgresCurrentRoomStateTable", err |-> "nil"]
    /\ upserted = {}
    /\ calls = [c \in Callers |-> [pc |-> "idle"]]
    /\ prior = {}

\* the row UpsertRoomState(event, contentVal) asks the statement to store
RowOf(event, contentVal) ==
    [room_id |-> event.room_id, event_id |-> event.event_id, type |-> event.type,
     sender |-> event.sender, state_key |-> event.state_key,
     headered_event_json |-> Marshal(event), content_value |-> contentVal]

\* UpsertRoomState after json.Marshal: the arguments of ExecContext are evaluated,
\* then the statement runs
ExecUpsert(event, headeredJSON, contentVal) ==
    IF event.state_key = NoStateKey
    THEN \* *event.StateKey() dereferences nil: the call panics before the statement runs
         /\ table' = table
         /\ last' = [op |-> "UpsertRoomState", err |-> "panic", event |-> event,
                     contentVal |-> contentVal, replaced |-> {}]
         /\ upserted' = upserted
    ELSE LET res == upsertRoomStateSQL(table, event.room_id, event.event_id, event.type,
                                       event.sender, event.state_key, headeredJSON,
                                       contentVal)
         IN  /\ Cardinality(res.rows) <= MaxRows
             /\ table' = res.rows
             /\ last' = [op |-> "UpsertRoomState", err |-> res.err, event |-> event,
                         contentVal |-> contentVal,
                         replaced |-> {r.event_id : r \in RowsAt(table, TupleOf(event))}]
             /\ upserted' =
                    IF res.err = "nil"
                    THEN {u \in upserted : TupleOf(u.event) # TupleOf(event)}
                             \cup {[event |-> event, contentVal |-> contentVal]}
                    ELSE upserted

\* UpsertRoomState(ctx, txn, event, contentVal)
UpsertRoomState(event, contentVal) == ExecUpsert(event, Marshal(event), contentVal)

\* DeleteRoomStateByEventID(ctx, txn, eventID)
DeleteRoomStateByEventID(eventID) ==
    LET res == deleteRoomStateByEventIDSQL(table, eventID)
    IN  /\ table' = res.rows
        /\ last' = [op |-> "DeleteRoomStateByEventID", err |-> res.err,
                    eventID |-> eventID,
                    affected |-> Cardinality(table) - Cardinality(res.rows),
                    afterOverwrite |-> /\ last.op = "UpsertRoomState"
                                       /\ last.err = "nil"
                                       /\ eventID \in last.replaced
                                       /\ eventID # last.event.event_id]
        /\ upserted' = {u \in upserted : u.event.event_id # eventID}

\* SelectRoomIDsWithMembership(ctx, txn, userID, contentVal): the values it may return
SelectRoomIDsWithMembershipResults(t, userID, contentVal) ==
    {[i \in DOMAIN rows |-> rows[i].room_id] :
        rows \in Orders(selectRoomIDsWithMembershipSQL(t, userID, contentVal))}

SelectRoomIDsWithMembership(userID, contentVal) ==
    \E result \in SelectRoomIDsWithMembershipResults(table, userID, contentVal) :
        /\ UNCHANGED <<table, upserted>>
        /\ last' = [op |-> "SelectRoomIDsWithMembership", err |-> "nil",
                    userID |-> userID, contentVal |-> contentVal, result |-> result]

\* SelectEventsWithEventIDs(ctx, txn, eventIDs): the values it may return
SelectEventsWithEventIDsResults(t, eventIDs) ==
    {[i \in DOMAIN rows |-> Unmarshal(rows[i].headered_event_json)] :
        rows \in Orders(selectEventsWithEventIDsSQL(t, eventIDs))}

SelectEventsWithEventIDs(eventIDs) ==
    \E result \in SelectEventsWithEventIDsResults(table, eventIDs) :
        /\ UNCHANGED <<table, upserted>>
        /\ last' = [op |-> "SelectEventsWithEventIDs", err |-> "nil",
                    eventIDs |-> eventIDs, result |-> result]

\* SelectStateEvent(ctx, roomID, evType, stateKey): the values it may return; <<>> is
\* the nil event returned on sql.ErrNoRows, otherwise QueryRow scans the first row
SelectStateEventResults(t, roomID, evType, stateKey) ==
    LET rows == selectStateEventSQL(t, roomID, evType, stateKey)
    IN  IF rows = {} THEN {<<>>}
        ELSE {<<Unmarshal(r.headered_event_json)>> : r \in rows}

SelectStateEvent(roomID, evType, stateKey) ==
    \E result \in SelectStateEventResults(table, roomID, evType, stateKey) :
        /\ UNCHANGED <<table, upserted>>
        /\ last' = [op |-> "SelectStateEvent", err |-> "nil", roomID |-> roomID,
                    evType |-> evType, stateKey |-> stateKey, result |-> result]

InList(list, x) == \E i \in DOMAIN list : list[i] = x

\* the loop over tuples of SelectBulkStateContent: eventTypes and stateKeys without
\* repeats, in order of first occurrence, and whether a state key is "*"
RECURSIVE BulkFilterFrom(_, _, _)
BulkFilterFrom(tuples, i, acc) ==
    IF i > Len(tuples) THEN acc
    ELSE LET tuple == tuples[i]
         IN  BulkFilterFrom(tuples, i + 1,
                [eventTypes |-> IF InList(acc.eventTypes, tuple.EventType)
                                THEN acc.eventTypes
                                ELSE Append(acc.eventTypes, tuple.EventType),
                 stateKeys |-> IF InList(acc.stateKeys, tuple.StateKey)
                               THEN acc.stateKeys
                               ELSE Append(acc.stateKeys, tuple.StateKey),
                 hasWildcards |-> acc.hasWildcards \/ tuple.StateKey = "*"])

BulkFilter(tuples) ==
    BulkFilterFrom(tuples, 1,
                   [eventTypes |-> <<>>, stateKeys |-> <<>>, hasWildcards |-> FALSE])

\* Variant: the wildcard statement runs whether or not the caller allowed wildcards
BulkRows_IgnoresOptIn(t, roomIDs, tuples, allowWildcards) ==
    LET f == BulkFilter(tuples)
    IN  IF f.hasWildcards
        THEN selectBulkStateContentWildSQL(t, roomIDs, f.eventTypes)
        ELSE selectBulkStateContentSQL(t, roomIDs, f.eventTypes, f.stateKeys)

\* Variant: only the types paired with "*" lose their state key filter; the other
\* requested types keep it
BulkRows_WildOnlyPairedType(t, roomIDs, tuples, allowWildcards) ==
    LET f == BulkFilter(tuples)
    IN  IF f.hasWildcards /\ allowWildcards
        THEN {r \in selectBulkStateContentWildSQL(t, roomIDs, f.eventTypes) :
                 \/ \E i \in DOMAIN tuples :
                        tuples[i].EventType = r.type /\ tuples[i].StateKey = "*"
                 \/ \E i \in DOMAIN tuples :
                        tuples[i].EventType = r.type /\ tuples[i].StateKey = r.state_key}
        ELSE selectBulkStateContentSQL(t, roomIDs, f.eventTypes, f.stateKeys)

\* Variant: the filter is built from the first tuple alone
BulkRows_FirstTupleOnly(t, roomIDs, tuples, allowWildcards) ==
    LET f == BulkFilter(IF tuples = <<>> THEN <<>> ELSE <<tuples[1]>>)
    IN  IF f.hasWildcards /\ allowWildcards
        THEN selectBulkStateContentWildSQL(t, roomIDs, f.eventTypes)
        ELSE selectBulkStateContentSQL(t, roomIDs, f.eventTypes, f.stateKeys)

\* the statement SelectBulkStateContent runs, and the rows it matches
BulkRows(t, roomIDs, tuples, allowWildcards) ==
    LET f == BulkFilter(tuples)
    IN  IF f.hasWildcards /\ allowWildcards
        THEN selectBulkStateContentWildSQL(t, roomIDs, f.eventTypes)
        ELSE selectBulkStateContentSQL(t, roomIDs, f.eventTypes, f.stateKeys)

\* tables.StrippedEvent scanned from a returned row
StrippedEvent(row) ==
    [RoomID |-> row.room_id, ContentValue |-> row.content_value,
     EventType |-> row.type, StateKey |-> row.state_key]

\* SelectBulkStateContent(ctx, roomIDs, tuples, allowWildcards): the values it may return
SelectBulkStateContentResults(t, roomIDs, tuples, allowWildcards) ==
    {[i \in DOMAIN rows |-> StrippedEvent(rows[i])] :
        rows \in Orders(BulkRows(t, roomIDs, tuples, allowWildcards))}

SelectBulkStateContent(roomIDs, tuples, allowWildcards) ==
    \E result \in SelectBulkStateContentResults(table, roomIDs, tuples, allowWildcards) :
        /\ UNCHANGED <<table, upserted>>
        /\ last' = [op |-> "SelectBulkStateContent", err |-> "nil", roomIDs |-> roomIDs,
                    tuples |-> tuples, allowWildcards |-> allowWildcards,
                    result |-> result]

Upsert ==
    \E event \in Events : \E contentVal \in ContentValsOf(event.type) :
        UpsertRoomState(event, contentVal)

Delete == \E eventID \in EventIDs : DeleteRoomStateByEventID(eventID)

Membership ==
    \E q \in MembershipRequests : SelectRoomIDsWithMembership(q[1], q[2])

EventsByID == \E eventIDs \in EventIDLists : SelectEventsWithEventIDs(eventIDs)

StateEvent ==
    \E q \in StateEventRequests : SelectStateEvent(q[1], q[2], q[3])

BulkStateContent == \E q \in BulkRequests : SelectBulkStateContent(q[1], q[2], q[3])

\* calls made one after the other, each running to completion
Next ==
    /\ \/ Upsert
       \/ Delete
       \/ Membership
       \/ EventsByID
       \/ StateEvent
       \/ BulkStateContent
    /\ UNCHANGED <<calls, prior>>

Spec == Init /\ [][Next]_vars

(***************************************************************************)
(* Engine faults: ExecContext may return an error of the storage engine    *)
(* (lost connection, cancelled context, serialization failure). The engine *)
(* runs a statement whole or not at all, so the statement has no effect.   *)
(***************************************************************************)
\* UpsertRoomState whose stmt.ExecContext returns an engine error
UpsertRoomStateFault(event, contentVal) ==
    /\ event.state_key # NoStateKey
    /\ table' = table
    /\ last' = [op |-> "UpsertRoomState", err |-> "engine_fault", event |-> event,
                contentVal |-> contentVal,
                replaced |-> {r.event_id : r \in RowsAt(table, TupleOf(event))}]
    /\ upserted' = upserted

\* DeleteRoomStateByEventID whose stmt.ExecContext returns an engine error
DeleteRoomStateByEventIDFault(eventID) ==
    /\ table' = table
    /\ last' = [op |-> "DeleteRoomStateByEventID", err |-> "engine_fault",
                eventID |-> eventID, affected |-> 0, afterOverwrite |-> FALSE]
    /\ upserted' = upserted

UpsertFault ==
    /\ \E event \in StateEvents : \E contentVal \in ContentValsOf(event.type) :
           UpsertRoomStateFault(event, contentVal)
    /\ UNCHANGED <<calls, prior>>

DeleteFault ==
    /\ \E eventID \in EventIDs : DeleteRoomStateByEventIDFault(eventID)
    /\ UNCHANGED <<calls, prior>>

FaultNext ==
    \/ Next
    \/ UpsertFault
    \/ DeleteFault

SpecFault == Init /\ [][FaultNext]_vars

(***************************************************************************)
(* Concurrent callers: two workers upsert the same tuple while a reader    *)
(* queries it. A worker marshals its event, then runs the statement; the   *)
(* statement is one step, as the storage engine runs it.                   *)
(***************************************************************************)
\* an upsert made before the workers start: any member event of room !r1
PriorUpserts ==
    {[event |-> e, contentVal |-> v] :
        e \in {x \in StateEvents : x.room_id = ConcKey[1] /\ x.type = ConcKey[2]},
        v \in ContentValsOf(ConcKey[2])}

ConcInit ==
    /\ upserted \in {{}} \cup {{u} : u \in PriorUpserts}
    /\ table = {RowOf(u.event, u.contentVal) : u \in upserted}
    /\ prior = table
    /\ last = [op |-> "NewPostgresCurrentRoomStateTable", err |-> "nil"]
    /\ calls = [c \in Callers |-> [pc |-> "idle"]]

\* UpsertRoomState up to json.Marshal(event)
Begin(c) ==
    /\ calls[c].pc = "idle"
    /\ \E event \in {x \in StateEvents : TupleOf(x) = ConcKey} :
       \E contentVal \in ContentValsOf(event.type) :
           calls' = [calls EXCEPT ![c] = [pc |-> "marshalled", event |-> event,
                                          contentVal |-> contentVal,
                                          headeredJSON |-> Marshal(event)]]
    /\ UNCHANGED <<table, last, upserted, prior>>

\* UpsertRoomState from stmt.ExecContext to its return
Exec(c) ==
    /\ calls[c].pc = "marshalled"
    /\ ExecUpsert(calls[c].event, calls[c].headeredJSON, calls[c].contentVal)
    /\ calls' = [calls EXCEPT ![c] = [pc |-> "returned", event |-> calls[c].event,
                                      contentVal |-> calls[c].contentVal,
                                      err |-> last'.err]]
    /\ UNCHANGED prior

\* the reader: one query, run between any two steps of the workers
Read ==
    /\ \/ StateEvent
       \/ EventsByID
    /\ UNCHANGED <<calls, prior>>

ConcNext ==
    \/ \E c \in Callers : Begin(c)
    \/ \E c \in Callers : Exec(c)
    \/ Read

SpecConc == ConcInit /\ [][ConcNext]_vars

(***************************************************************************)
(* Properties                                                              *)
(***************************************************************************)
AllTuples == Rooms \X Types \X StateKeys

Holds(t, eventID) == \E r \in t : r.event_id = eventID

UpsertedOK == last.op = "UpsertRoomState" /\ last.err = "nil"

\* C1: in every reachable state the table holds at most one row per
\* (room_id, type, state_key)
C1_AtMostOneRecordPerTuple ==
    \A r1, r2 \in table : TupleOf(r1) = TupleOf(r2) => r1 = r2

C1_Witness ==
    /\ UpsertedOK
    /\ last.replaced # {}
    /\ Cardinality(table) = 2

\* C2: every tuple that was upserted successfully (and whose event was not deleted
\* since) has exactly one row, that row carries the event_id, sender, envelope and
\* content value of the latest successful upsert of the tuple, and SelectStateEvent
\* on the tuple returns that call's event
C2_LastWriterWins ==
    \A u \in upserted :
        /\ RowsAt(table, TupleOf(u.event)) = {RowOf(u.event, u.contentVal)}
        /\ SelectStateEventResults(table, u.event.room_id, u.event.type,
                                   u.event.state_key) = {<<u.event>>}

C2_Witness ==
    /\ UpsertedOK
    /\ last.replaced = {"$e1"}
    /\ last.event.event_id = "$e2"
    /\ last.contentVal = "leave"
    /\ Cardinality(upserted) = 2

\* a DeleteRoomStateByEventID(E) step taken right after a successful upsert that
\* overwrote E on some tuple with a different event
DeleteOfOverwritten ==
    /\ UpsertedOK
    /\ last'.op = "DeleteRoomStateByEventID"
    /\ last'.eventID \in last.replaced
    /\ last'.eventID # last.event.event_id

\* C3 as stated: deleting the overwritten event E succeeds and removes nothing
C3_DeleteOfOverwrittenRemovesNothing ==
    [][DeleteOfOverwritten => (last'.err = "nil" /\ table' = table)]_vars

\* C3 amended: deleting the overwritten event E succeeds and leaves the tuple with
\* E2 and all of E2's fields; it removes exactly the rows whose event_id is E, hence
\* nothing when no tuple holds E any more; and every later delete of an event other
\* than the one a tuple was last upserted with leaves that tuple's row as upserted
C3_DeleteIsEventScoped ==
    /\ [][DeleteOfOverwritten =>
            /\ last'.err = "nil"
            /\ RowsAt(table', TupleOf(last.event)) = {RowOf(last.event, last.contentVal)}
            /\ table' = {r \in table : r.event_id # last'.eventID}
            /\ (~Holds(table, last'.eventID) => table' = table)]_vars
    /\ [][last'.op = "DeleteRoomStateByEventID" =>
            \A u \in upserted : u.event.event_id # last'.eventID =>
                RowsAt(table', TupleOf(u.event)) = {RowOf(u.event, u.contentVal)}]_vars

C3_Witness ==
    /\ last.op = "DeleteRoomStateByEventID"
    /\ last.afterOverwrite
    /\ last.affected = 0
    /\ table # {}

\* C4: DeleteRoomStateByEventID with an event ID no row holds returns nil and leaves
\* the table as it was; after any delete no row holds the ID, so the same call
\* again changes nothing
C4_IdempotentDelete ==
    /\ [][(last'.op = "DeleteRoomStateByEventID" /\ ~Holds(table, last'.eventID)) =>
            (last'.err = "nil" /\ table' = table)]_vars
    /\ [][last'.op = "DeleteRoomStateByEventID" =>
            /\ ~Holds(table', last'.eventID)
            /\ deleteRoomStateByEventIDSQL(table', last'.eventID).rows = table']_vars

C4_Witness ==
    /\ last.op = "DeleteRoomStateByEventID"
    /\ last.affected = 0
    /\ last.err = "nil"
    /\ table # {}

\* C5: DeleteRoomStateByEventID(E) removes the row of every tuple E holds, so that
\* SelectStateEvent on such a tuple returns nil, and a tuple for which it returns nil
\* returns an event again only through a successful upsert of that tuple
C5_DeleteRemovesHolder ==
    /\ [][last'.op = "DeleteRoomStateByEventID" =>
            \A r \in table : r.event_id = last'.eventID =>
                SelectStateEventResults(table', r.room_id, r.type, r.state_key) = {<<>>}]_vars
    /\ [][\A k \in AllTuples :
            (/\ SelectStateEventResults(table, k[1], k[2], k[3]) = {<<>>}
             /\ SelectStateEventResults(table', k[1], k[2], k[3]) # {<<>>})
            => (/\ last'.op = "UpsertRoomState"
                /\ last'.err = "nil"
                /\ TupleOf(last'.event) = k)]_vars

C5_Witness ==
    /\ last.op = "DeleteRoomStateByEventID"
    /\ last.affected = 1
    /\ table # {}
    /\ ~Holds(table, last.eventID)

\* lists of at most two elements of S
UpToTwo(S) == {<<>>} \cup {<<x>> : x \in S} \cup {<<x, y>> : x \in S, y \in S}

\* the room ID lists and tuple lists the bulk query is examined on
RoomLists == UpToTwo(Rooms)

KeyTupleLists == UpToTwo({KeyTuple(ty, k) : ty \in Types, k \in StateKeys})

Elements(list) == {list[i] : i \in DOMAIN list}

\* a returned list holds exactly the elements of `expected`, each once
ReturnsExactly(result, expected) ==
    Elements(result) = expected /\ Len(result) = Cardinality(expected)

\* C8: for every user and membership value, SelectRoomIDsWithMembership returns
\* exactly the rooms a scan of all rows finds with the user's member tuple at that
\* value, which are the rooms whose member tuple was last upserted with that value
\* and not deleted since
C8_MembershipMatchesScan ==
    \A userID \in StateKeys, contentVal \in ContentVals :
        LET scan == {room \in Rooms :
                        \E r \in table : /\ TupleOf(r) = <<room, "m.room.member", userID>>
                                         /\ r.content_value = contentVal}
            written == {u.event.room_id :
                          u \in {x \in upserted : /\ x.event.type = "m.room.member"
                                                  /\ x.event.state_key = userID
                                                  /\ x.contentVal = contentVal}}
        IN  /\ scan = written
            /\ \A result \in SelectRoomIDsWithMembershipResults(table, userID, contentVal) :
                   ReturnsExactly(result, scan)

C8_Witness ==
    /\ last.op = "SelectRoomIDsWithMembership"
    /\ last.userID = "@a"
    /\ last.contentVal = "leave"
    /\ last.result = <<"!r1">>
    /\ \E r \in table : TupleOf(r) = <<"!r2", "m.room.member", "@a">> /\ r.content_value = "join"

\* SelectEventsWithEventIDs(<<>>) can run in every state and changes no row, so
\* every reachable table is also reached with `last` recording that call: a property
\* of the table alone is examined in those states, once per table
AfterEmptyQuery ==
    last = [op |-> "SelectEventsWithEventIDs", err |-> "nil", eventIDs |-> <<>>,
            result |-> <<>>]

EveryTableExamined == ENABLED (SelectEventsWithEventIDs(<<>>) /\ AfterEmptyQuery')

HasStar(tuples) == \E i \in DOMAIN tuples : tuples[i].StateKey = "*"

\* the four scalar fields of a row, as a bulk query returns them
Flat(r) ==
    [RoomID |-> r.room_id, EventType |-> r.type, StateKey |-> r.state_key,
     ContentValue |-> r.content_value]

\* C9: a request holding a tuple with state key "*": without allowWildcards the "*"
\* is one more literal state key (no row for it when no row has that key); with
\* allowWildcards every row of a type paired with "*" in the given rooms is
\* returned, whatever its state key, and a request of the single tuple (type, "*")
\* returns exactly the rows of that type in the given rooms
C9_WildcardGating ==
    /\ EveryTableExamined
    /\ AfterEmptyQuery =>
        \A roomIDs \in RoomLists, tuples \in KeyTupleLists :
            HasStar(tuples) =>
                LET inRooms == {r \in table : r.room_id \in Elements(roomIDs)}
                    literal == {r \in inRooms :
                                  /\ \E i \in DOMAIN tuples : r.type = tuples[i].EventType
                                  /\ \E i \in DOMAIN tuples : r.state_key = tuples[i].StateKey}
                    starred == {r \in inRooms :
                                  \E i \in DOMAIN tuples : /\ tuples[i].StateKey = "*"
                                                           /\ r.type = tuples[i].EventType}
                IN  /\ \A result \in SelectBulkStateContentResults(table, roomIDs, tuples, FALSE) :
                           /\ ReturnsExactly(result, {Flat(r) : r \in literal})
                           /\ (Len(tuples) = 1 /\ ~\E r \in table : r.state_key = "*")
                                  => result = <<>>
                    /\ \A result \in SelectBulkStateContentResults(table, roomIDs, tuples, TRUE) :
                           /\ {Flat(r) : r \in starred} \subseteq Elements(result)
                           /\ Elements(result) \subseteq {Flat(r) : r \in inRooms}
                           /\ Len(tuples) = 1 => ReturnsExactly(result, {Flat(r) : r \in starred})

C9_Witness ==
    /\ last.op = "SelectBulkStateContent"
    /\ last.tuples = <<KeyTuple("m.room.member", "*")>>
    /\ ~last.allowWildcards
    /\ last.roomIDs = <<"!r1">>
    /\ last.result = <<>>
    /\ \E r \in table : TupleOf(r) = <<"!r1", "m.room.member", "@a">>

\* C10: on the exact path the rows returned are exactly the rows of the given rooms
\* whose type is the type of some requested tuple and whose state key is the state
\* key of some requested tuple, each once and with its own four fields
C10_ExactPathIndependentSets ==
    /\ EveryTableExamined
    /\ AfterEmptyQuery =>
        \A roomIDs \in RoomLists, tuples \in KeyTupleLists,
           allowWildcards \in BOOLEAN :
            (~HasStar(tuples) \/ ~allowWildcards) =>
                \A result \in SelectBulkStateContentResults(table, roomIDs, tuples,
                                                            allowWildcards) :
                    ReturnsExactly(result,
                        {Flat(r) : r \in {x \in table :
                            /\ x.room_id \in Elements(roomIDs)
                            /\ \E i \in DOMAIN tuples : x.type = tuples[i].EventType
                            /\ \E j \in DOMAIN tuples : x.state_key = tuples[j].StateKey}})

C10_Witness ==
    /\ last.op = "SelectBulkStateContent"
    /\ last.tuples = <<KeyTuple("m.room.member", "@a"), KeyTuple("m.room.join_rules", "*")>>
    /\ ~last.allowWildcards
    /\ \E i \in DOMAIN last.result :
          last.result[i].EventType = "m.room.member" /\ last.result[i].StateKey = "*"

(***************************************************************************)
(* Concurrent upserts of one tuple, and the reader beside them             *)
(***************************************************************************)
Done(c) == calls[c].pc = "returned"

Succeeded(c) == Done(c) /\ calls[c].err = "nil"

RowOfCall(c) == RowOf(calls[c].event, calls[c].contentVal)

ExecStep(c) == calls[c].pc = "marshalled" /\ calls'[c].pc = "returned"

\* C6 as stated: no state has two records for the tuple, and once every caller has
\* returned the tuple's record is the complete field set of one of the callers
C6_RecordIsOneCallers ==
    /\ Cardinality(RowsAt(table, ConcKey)) <= 1
    /\ (\A c \in Callers : Done(c)) =>
           \E c \in Callers : RowsAt(table, ConcKey) = {RowOfCall(c)}

\* C6: with concurrent UpsertRoomState calls on one tuple, no state has two records for
\* the tuple; once every caller has returned and at least one call succeeded, the
\* tuple's record is the complete field set of one caller whose call succeeded; a call
\* that fails leaves the table as it was
C6_ConcurrentUpserts ==
    /\ [](/\ Cardinality(RowsAt(table, ConcKey)) <= 1
          /\ ((\A c \in Callers : Done(c)) /\ (\E c \in Callers : Succeeded(c))) =>
                 \E c \in Callers :
                     Succeeded(c) /\ RowsAt(table, ConcKey) = {RowOfCall(c)})
    /\ [][\A c \in Callers :
             (ExecStep(c) /\ calls'[c].err # "nil") => table' = table]_vars

\* both callers succeeded with different events over a record that was there before
C6_Witness ==
    /\ \A c \in Callers : Succeeded(c)
    /\ calls["w1"].event.event_id # calls["w2"].event.event_id
    /\ RowsAt(prior, ConcKey) # {}
    /\ RowsAt(table, ConcKey) = {RowOfCall("w1")}

\* a record written whole: one the tuple held before the callers started, or the
\* arguments of one call that succeeded
CompleteRecord(r) ==
    \/ r \in prior
    \/ \E c \in Callers : Succeeded(c) /\ r = RowOfCall(c)

\* C7: a reader beside an upsert of a tuple sees the tuple's complete record from before
\* the statement or its complete record from after it: every record it can read, and
\* the event SelectStateEvent hands it, is one written whole, and one statement takes
\* the tuple from the record before to the caller's own record or leaves it
C7_ReaderSeesCompleteRecord ==
    /\ [](/\ \A r \in RowsAt(table, ConcKey) : CompleteRecord(r)
          /\ (/\ last.op = "SelectStateEvent"
               /\ <<last.roomID, last.evType, last.stateKey>> = ConcKey
               /\ last.result # <<>>) =>
                 \E r \in RowsAt(table, ConcKey) :
                     /\ CompleteRecord(r)
                     /\ last.result = <<Unmarshal(r.headered_event_json)>>
                     /\ last.result[1].event_id = r.event_id
                     /\ last.result[1].sender = r.sender)
    /\ [][\A c \in Callers :
             ExecStep(c) =>
                 \/ RowsAt(table', ConcKey) = RowsAt(table, ConcKey)
                 \/ RowsAt(table', ConcKey) = {RowOf(calls[c].event, calls[c].contentVal)}]_vars

\* the reader gets the event of a caller that overwrote the earlier record while the
\* other caller's statement is still to run
C7_Witness ==
    /\ last.op = "SelectStateEvent"
    /\ <<last.roomID, last.evType, last.stateKey>> = ConcKey
    /\ Succeeded("w1")
    /\ calls["w2"].pc = "marshalled"
    /\ last.result = <<calls["w1"].event>>
    /\ \E r \in RowsAt(prior, ConcKey) : r.event_id # calls["w1"].event.event_id

(***************************************************************************)
(* Errors of the write methods                                             *)
(***************************************************************************)
\* a step in which UpsertRoomState ran and completed
UpsertStep == last' # last /\ last'.op = "UpsertRoomState"

\* what a call hands back when it returns an error to its caller
ReturnsError(err) == err \notin {"nil", "panic"}

\* C11 as stated: UpsertRoomState given an event without a state key returns an error
\* to the caller and leaves the table unchanged
C11_MissingStateKeyReturnsError ==
    [][(UpsertStep /\ last'.event.state_key = NoStateKey) =>
           (ReturnsError(last'.err) /\ table' = table)]_vars

\* an event without a state key was upserted over a table that holds records
C11_Witness ==
    /\ last.op = "UpsertRoomState"
    /\ last.event.state_key = NoStateKey
    /\ last.err = "panic"
    /\ table # {}

\* a step in which DeleteRoomStateByEventID ran and completed
DeleteStep == last' # last /\ last'.op = "DeleteRoomStateByEventID"

HeldUnderOtherKey(t, event) ==
    \E r \in t : /\ EventIdxOf(r) = <<event.event_id, event.room_id, event.type, event.sender>>
                 /\ r.state_key # event.state_key

\* C13: no two records share (event_id, room_id, type, sender), and an UpsertRoomState
\* naming a combination held under another state key creates no second such record: it
\* fails on the index and the table stays as it was
C13_EventIdxUnique ==
    /\ [](\A r1, r2 \in table : EventIdxOf(r1) = EventIdxOf(r2) => r1 = r2)
    /\ [][(UpsertStep /\ last'.event.state_key # NoStateKey
              /\ HeldUnderOtherKey(table, last'.event)) =>
             /\ last'.err = "unique_violation"
             /\ table' = table
             /\ Cardinality({r \in table' : EventIdxOf(r) = EventIdxOf(RowOf(last'.event, last'.contentVal))}) = 1]_vars

\* an insert for a free tuple was refused because its event is held under another key
C13_Witness ==
    /\ last.op = "UpsertRoomState"
    /\ last.err = "unique_violation"
    /\ last.replaced = {}
    /\ HeldUnderOtherKey(table, last.event)

(***************************************************************************)
(* Queries: empty filters, lookups by ID and by tuple                      *)
(***************************************************************************)
\* C14: SelectBulkStateContent with no room IDs or with no tuples, whatever
\* allowWildcards is, and SelectEventsWithEventIDs with no IDs, return an empty result
\* and a nil error on every table
C14_EmptyFiltersYieldNothing ==
    /\ EveryTableExamined
    /\ AfterEmptyQuery =>
        /\ SelectEventsWithEventIDsResults(table, <<>>) = {<<>>}
        /\ \A allowWildcards \in BOOLEAN :
            /\ \A tuples \in KeyTupleLists :
                   SelectBulkStateContentResults(table, <<>>, tuples, allowWildcards) = {<<>>}
            /\ \A roomIDs \in RoomLists :
                   SelectBulkStateContentResults(table, roomIDs, <<>>, allowWildcards) = {<<>>}
    /\ (\/ last.op = "SelectBulkStateContent" /\ (last.roomIDs = <<>> \/ last.tuples = <<>>)
        \/ last.op = "SelectEventsWithEventIDs" /\ last.eventIDs = <<>>) =>
           last.err = "nil" /\ last.result = <<>>

\* a wildcard request with no room IDs came back empty from a table holding member rows
C14_Witness ==
    /\ last.op = "SelectBulkStateContent"
    /\ last.roomIDs = <<>>
    /\ last.tuples = <<KeyTuple("m.room.member", "*")>>
    /\ last.allowWildcards
    /\ last.result = <<>>
    /\ last.err = "nil"
    /\ \E r \in table : r.type = "m.room.member"

\* the events of the latest successful upserts, not deleted since, whose ID is listed
CurrentEventsOf(eventIDs) ==
    {u.event : u \in {x \in upserted : x.event.event_id \in Elements(eventIDs)}}

\* the ID lists the event query is examined on: up to two IDs, and one with a repeat
ExaminedIDLists == UpToTwo(EventIDs) \cup EventIDLists

\* C15: SelectEventsWithEventIDs(ids) returns, each once, exactly the envelopes of the
\* rows whose event_id is listed, which are the events last upserted for a tuple and
\* not deleted since; IDs never upserted, deleted or overwritten are left out, and the
\* error is nil
C15_EventsByIDExact ==
    /\ EveryTableExamined
    /\ AfterEmptyQuery =>
        \A eventIDs \in ExaminedIDLists :
            LET held == {Unmarshal(r.headered_event_json) :
                            r \in {x \in table : x.event_id \in Elements(eventIDs)}}
            IN  /\ held = CurrentEventsOf(eventIDs)
                /\ \A result \in SelectEventsWithEventIDsResults(table, eventIDs) :
                       ReturnsExactly(result, held)
    /\ last.op = "SelectEventsWithEventIDs" =>
           /\ last.err = "nil"
           /\ ReturnsExactly(last.result, CurrentEventsOf(last.eventIDs))

\* both IDs were asked for; the two records of $e1 came back and $e2, held by no
\* record, was left out
C15_Witness ==
    /\ last.op = "SelectEventsWithEventIDs"
    /\ last.eventIDs = <<"$e2", "$e1", "$e2">>
    /\ last.err = "nil"
    /\ Len(last.result) = 2
    /\ \A i \in DOMAIN last.result : last.result[i].event_id = "$e1"
    /\ ~Holds(table, "$e2")

\* what SelectStateEvent must hand back for a tuple: the event of the tuple's latest
\* successful upsert not deleted since, or the nil event
CurrentEventAt(tuple) ==
    IF \E u \in upserted : TupleOf(u.event) = tuple
    THEN {<<u.event>> : u \in {x \in upserted : TupleOf(x.event) = tuple}}
    ELSE {<<>>}

\* C16: SelectStateEvent(roomID, type, stateKey) returns the envelope of the one record
\* of exactly that tuple, and the nil event with a nil error when the tuple was never
\* upserted or its record was deleted; it returns an event only for a tuple that an
\* upsert wrote
C16_StateEventExactTuple ==
    /\ EveryTableExamined
    /\ AfterEmptyQuery =>
        \A tuple \in AllTuples :
            /\ Cardinality(CurrentEventAt(tuple)) = 1
            /\ SelectStateEventResults(table, tuple[1], tuple[2], tuple[3])
                   = CurrentEventAt(tuple)
    /\ last.op = "SelectStateEvent" =>
           /\ last.err = "nil"
           /\ last.result \in CurrentEventAt(<<last.roomID, last.evType, last.stateKey>>)
           /\ last.result # <<>> =>
                  /\ TupleOf(last.result[1]) = <<last.roomID, last.evType, last.stateKey>>
                  /\ \E r \in table : Unmarshal(r.headered_event_json) = last.result[1]

\* the tuple asked for has no record while the same room and type has one under
\* another state key: the answer is the nil event
C16_Witness ==
    /\ last.op = "SelectStateEvent"
    /\ <<last.roomID, last.evType, last.stateKey>> = <<"!r1", "m.room.member", "@a">>
    /\ last.result = <<>>
    /\ last.err = "nil"
    /\ \E r \in table : TupleOf(r) = <<"!r1", "m.room.member", "*">>

(***************************************************************************)
(* What the write methods leave alone                                      *)
(***************************************************************************)
\* the rows of `t` outside tuple `key`
RowsElsewhere(t, key) == {r \in t : TupleOf(r) # key}

\* C17: an UpsertRoomState for tuple T leaves the record of every other tuple as it
\* was; when it succeeds T has one record, with T's room_id, type and state_key and the
\* event_id, sender, envelope and content value of the call, and an overwrite adds no row
C17_UpsertChangesOnlyItsTuple ==
    [][(UpsertStep /\ last'.event.state_key # NoStateKey) =>
          LET T == TupleOf(last'.event)
          IN  /\ RowsElsewhere(table', T) = RowsElsewhere(table, T)
              /\ last'.err = "nil" =>
                    /\ RowsAt(table', T) = {RowOf(last'.event, last'.contentVal)}
                    /\ \A r \in RowsAt(table', T) :
                           /\ <<r.room_id, r.type, r.state_key>> = T
                           /\ r.event_id = last'.event.event_id
                           /\ r.sender = last'.event.sender
                           /\ r.headered_event_json = Marshal(last'.event)
                           /\ r.content_value = last'.contentVal
                    /\ RowsAt(table, T) # {} => Cardinality(table') = Cardinality(table)]_vars

\* $e1 overwrote $e2 on a tuple while another tuple holds a record
C17_Witness ==
    /\ UpsertedOK
    /\ last.replaced = {"$e2"}
    /\ last.event.event_id = "$e1"
    /\ RowsElsewhere(table, TupleOf(last.event)) # {}

(***************************************************************************)
(* The bulk query: wildcard scope, and dependence on the sets only         *)
(***************************************************************************)
TypesOf(tuples) == {tuples[i].EventType : i \in DOMAIN tuples}

KeysOf(tuples) == {tuples[i].StateKey : i \in DOMAIN tuples}

\* C18: with allowWildcards and some requested tuple of state key "*", the bulk query
\* filters by room and type alone for every requested type: it returns, each once, all
\* rows of the given rooms whose type is requested, those of a type paired with another
\* key k and holding a state key other than k included
C18_WildcardDropsKeyFilterForAllTypes ==
    /\ EveryTableExamined
    /\ AfterEmptyQuery =>
        \A roomIDs \in RoomLists, tuples \in KeyTupleLists :
            HasStar(tuples) =>
                \A result \in SelectBulkStateContentResults(table, roomIDs, tuples, TRUE) :
                    ReturnsExactly(result,
                        {Flat(r) : r \in {x \in table : /\ x.room_id \in Elements(roomIDs)
                                                        /\ x.type \in TypesOf(tuples)}})
    /\ (/\ last.op = "SelectBulkStateContent"
        /\ last.allowWildcards
        /\ HasStar(last.tuples)) =>
           Elements(last.result) =
               {Flat(r) : r \in {x \in table : /\ x.room_id \in Elements(last.roomIDs)
                                               /\ x.type \in TypesOf(last.tuples)}}

\* member was requested with key "@a" and join_rules with "*": a member row of another
\* state key came back
C18_Witness ==
    /\ last.op = "SelectBulkStateContent"
    /\ last.tuples = <<KeyTuple("m.room.member", "@a"), KeyTuple("m.room.join_rules", "*")>>
    /\ last.allowWildcards
    /\ \E i \in DOMAIN last.result :
          last.result[i].EventType = "m.room.member" /\ last.result[i].StateKey # "@a"
    /\ \E i \in DOMAIN last.result : last.result[i].EventType = "m.room.join_rules"

\* C19: after a DeleteRoomStateByEventID(E) that returned nil no record has event_id E,
\* however many rooms, types or senders held it, and the records of every other event
\* are exactly those from before the call
C19_DeleteRemovesAllOfEventOnly ==
    [][(DeleteStep /\ last'.err = "nil") =>
          /\ ~Holds(table', last'.eventID)
          /\ {r \in table' : r.event_id # last'.eventID}
                 = {r \in table : r.event_id # last'.eventID}
          /\ table' \subseteq table
          /\ last'.affected = Cardinality({r \in table : r.event_id = last'.eventID})]_vars

\* one call removed the records of two tuples that held the event
C19_Witness ==
    /\ last.op = "DeleteRoomStateByEventID"
    /\ last.err = "nil"
    /\ last.affected = 2
    /\ ~Holds(table, last.eventID)

\* the rows a bulk request selects, from the sets of its arguments alone
BulkBySets(t, rooms, types, keys, allowWildcards) ==
    {r \in t : /\ r.room_id \in rooms
               /\ r.type \in types
               /\ ("*" \in keys /\ allowWildcards) \/ r.state_key \in keys}

\* the same elements in another order, or with repeats
SameSets(list1, list2) == Elements(list1) = Elements(list2)

\* C20: the rows SelectBulkStateContent returns are fixed by the set of room IDs, the
\* set of requested types, the set of requested state keys and allowWildcards: two
\* requests that differ in the order or repetition of room IDs or tuples, or in how
\* the same types and keys are paired, return the same rows, and no result holds a row
\* twice
C20_BulkDependsOnSetsOnly ==
    /\ EveryTableExamined
    /\ AfterEmptyQuery =>
        \A roomIDs \in RoomLists, tuples \in KeyTupleLists, allowWildcards \in BOOLEAN :
            LET expected == {Flat(r) : r \in BulkBySets(table, Elements(roomIDs),
                                                        TypesOf(tuples), KeysOf(tuples),
                                                        allowWildcards)}
            IN  /\ \A result \in SelectBulkStateContentResults(table, roomIDs, tuples,
                                                               allowWildcards) :
                       ReturnsExactly(result, expected)
                /\ \A roomIDs2 \in {l \in RoomLists : SameSets(l, roomIDs)} :
                       BulkRows(table, roomIDs2, tuples, allowWildcards)
                           = BulkRows(table, roomIDs, tuples, allowWildcards)
                /\ \A tuples2 \in {l \in KeyTupleLists :
                                      /\ TypesOf(l) = TypesOf(tuples)
                                      /\ KeysOf(l) = KeysOf(tuples)} :
                       BulkRows(table, roomIDs, tuples2, allowWildcards)
                           = BulkRows(table, roomIDs, tuples, allowWildcards)
    /\ last.op = "SelectBulkStateContent" =>
           ReturnsExactly(last.result,
               {Flat(r) : r \in BulkBySets(table, Elements(last.roomIDs),
                                           TypesOf(last.tuples), KeysOf(last.tuples),
                                           last.allowWildcards)})

\* a request repeating a room ID and a tuple returned the two rows it matches, each once
C20_Witness ==
    /\ last.op = "SelectBulkStateContent"
    /\ last.roomIDs = <<"!r1", "!r2", "!r1">>
    /\ Len(last.tuples) = 3
    /\ Len(last.result) = 2
    /\ last.result[1] # last.result[2]
    /\ \A i \in DOMAIN last.result : last.result[i].RoomID = "!r1"

====
